---- MODULE Spec2Model ----
(***************************************************************************)
(* The scanner of jlox-rs (src/src/main.rs): Scanner::new, Scanner::scan,  *)
(* Scanner::add_token, Token::new and Lox::report.                         *)
(*                                                                         *)
(* A character is a one-character string, a text a sequence of characters. *)
(* One action is one iteration of a loop of Scanner::scan: an iteration of *)
(* the main loop (one action per group of match arms), of the comment      *)
(* loop, of the string loop, of the two digit loops, the number parse, and *)
(* the Eof push after the main loop.  The callers of scan (Lox::run, twice  *)
(* over; a repeated call; Lox::run_prompt) follow the definition of Spec.  *)
(***************************************************************************)
EXTENDS Integers, Sequences, FiniteSets, TLC

(***************************************************************************)
(* Bounds of the model: every text of at most MaxSrcLen characters over    *)
(* Alphabet is scanned, and so is every text of Examples.                  *)
(***************************************************************************)
MaxSrcLen == 4

Alphabet == {"+", "=", "<", "/", "\"", "2", "5", ".", " ", "\n", "a"}

SrcParens == <<"(", "+", " ", "2", " ", "3", ".", "5", ")">>

SrcBang == <<"!", "=", " ", "=", " ", "!">>

SrcLessEqEq == <<"<", "=", "=">>

SrcComment == <<"/", "/", " ", "c", "o", "m", "m", "e", "n", "t", " ", "o", "n", "l", "y", "\n">>

SrcABC == <<"a", "\n", "b", "\n", "c">>

SrcUnterminated == <<"\"", "a", "b", "c">>

SrcTrailingDot == <<"1", "2", "3", ".">>

SrcAllOps == <<"{", "}", ",", "-", ";", "*", ">", "=", ">", "\r", "\t", "!", "/", "0", ".", "5", ".">>

SrcMultiLine == <<"+", "\n", "\"", "a", "\n", "b", "\"", "\n", "3", ".", "5", "/", "/", "x", "\n", "2", "(">>

Examples ==
    {SrcParens, SrcBang, SrcLessEqEq, SrcComment, SrcABC, SrcUnterminated,
     SrcTrailingDot, SrcAllOps, SrcMultiLine}

SeqsUpTo(S, n) == UNION {[1..k -> S] : k \in 0..n}

Sources == SeqsUpTo(Alphabet, MaxSrcLen) \cup Examples

(***************************************************************************)
(* Character classes of the match in Scanner::scan.                        *)
(***************************************************************************)
Digits == {"0", "1", "2", "3", "4", "5", "6", "7", "8", "9"}

SingleChars == {"(", ")", "{", "}", ",", ".", "-", "+", ";", "*"}

OneOrTwoChars == {"!", "=", "<", ">"}

WhitespaceChars == {" ", "\r", "\t"}

SingleCharKind(c) ==
    CASE c = "(" -> "LeftParen"
      [] c = ")" -> "RightParen"
      [] c = "{" -> "LeftBrace"
      [] c = "}" -> "RightBrace"
      [] c = "," -> "Comma"
      [] c = "." -> "Dot"
      [] c = "-" -> "Minus"
      [] c = "+" -> "Plus"
      [] c = ";" -> "Semicolon"
      [] c = "*" -> "Star"

OneCharKind(c) ==
    CASE c = "!" -> "Bang"
      [] c = "=" -> "Equal"
      [] c = "<" -> "Less"
      [] c = ">" -> "Greater"

TwoCharKind(c) ==
    CASE c = "!" -> "BangEqual"
      [] c = "=" -> "EqualEqual"
      [] c = "<" -> "LessEqual"
      [] c = ">" -> "GreaterEqual"

(***************************************************************************)
(* str::parse::<f64> on the accumulator.  The decimal grammar of           *)
(* f64::from_str: an optional sign, then digits with an optional '.' and   *)
(* more digits (at least one digit in all), then an optional exponent.     *)
(* Nothing is trimmed: any other character makes the parse fail.  (The     *)
(* spellings inf, infinity and nan hold no digit and no '.', while every   *)
(* accumulator that reaches the parse ends in one.)  The value is the      *)
(* exact decimal <<n, d>> = n / d in lowest powers of ten, which is        *)
(* faithful to f64 equality for literals of at most 15 significant digits. *)
(***************************************************************************)
DigitVal(c) ==
    CASE c = "0" -> 0 [] c = "1" -> 1 [] c = "2" -> 2 [] c = "3" -> 3
      [] c = "4" -> 4 [] c = "5" -> 5 [] c = "6" -> 6 [] c = "7" -> 7
      [] c = "8" -> 8 [] c = "9" -> 9

RECURSIVE DigitsValue(_)
DigitsValue(s) ==
    IF s = <<>> THEN 0
    ELSE DigitsValue(SubSeq(s, 1, Len(s) - 1)) * 10 + DigitVal(s[Len(s)])

RECURSIVE Pow10(_)
Pow10(n) == IF n = 0 THEN 1 ELSE 10 * Pow10(n - 1)

\* The number of leading digits of s from index i on.
RECURSIVE DigitRun(_, _)
DigitRun(s, i) ==
    IF i <= Len(s) /\ s[i] \in Digits THEN 1 + DigitRun(s, i + 1) ELSE 0

RECURSIVE Normalize(_, _)
Normalize(n, d) ==
    IF n = 0 THEN <<0, 1>>
    ELSE IF d > 1 /\ n % 10 = 0 THEN Normalize(n \div 10, d \div 10)
    ELSE <<n, d>>

\* The parts of s under the grammar: where each part starts and how long it is.
F64Parts(s) ==
    LET sign    == IF Len(s) >= 1 /\ s[1] \in {"+", "-"} THEN 1 ELSE 0
        intLen  == DigitRun(s, sign + 1)
        dotAt   == sign + intLen + 1
        hasDot  == dotAt <= Len(s) /\ s[dotAt] = "."
        fracAt  == IF hasDot THEN dotAt + 1 ELSE dotAt
        fracLen == IF hasDot THEN DigitRun(s, fracAt) ELSE 0
        expAt   == fracAt + fracLen
        hasExp  == expAt <= Len(s) /\ s[expAt] \in {"e", "E"}
        eSign   == IF hasExp /\ expAt + 1 <= Len(s) /\ s[expAt + 1] \in {"+", "-"}
                   THEN 1 ELSE 0
        eAt     == expAt + 1 + eSign
        eLen    == IF hasExp THEN DigitRun(s, eAt) ELSE 0
    IN  [sign |-> sign, intLen |-> intLen, fracAt |-> fracAt, fracLen |-> fracLen,
         hasExp |-> hasExp, eNeg |-> (eSign = 1 /\ s[expAt + 1] = "-"),
         eAt |-> eAt, eLen |-> eLen,
         end |-> IF hasExp THEN eAt + eLen ELSE expAt]

\* parse() returns Ok.
ParseOk(s) ==
    LET p == F64Parts(s)
    IN  /\ p.intLen + p.fracLen >= 1
        /\ p.hasExp => p.eLen >= 1
        /\ p.end = Len(s) + 1

\* The value of Ok(v).
ParseVal(s) ==
    LET p     == F64Parts(s)
        neg   == p.sign = 1 /\ s[1] = "-"
        mant  == DigitsValue(SubSeq(s, p.sign + 1, p.sign + p.intLen)) * Pow10(p.fracLen)
                 + DigitsValue(SubSeq(s, p.fracAt, p.fracAt + p.fracLen - 1))
        e     == DigitsValue(SubSeq(s, p.eAt, p.eAt + p.eLen - 1))
        num   == IF p.eNeg THEN mant ELSE mant * Pow10(e)
        den   == IF p.eNeg THEN Pow10(p.fracLen) * Pow10(e) ELSE Pow10(p.fracLen)
        v     == Normalize(num, den)
    IN  IF neg THEN <<0 - v[1], v[2]>> ELSE v

(***************************************************************************)
(* State.  source, tokens, line, lexeme are the fields of Scanner; pos is  *)
(* the number of characters char_iter has yielded; lit is the local of the *)
(* string arm; errors is what Lox::report has printed; HAD_ERROR is the    *)
(* static; pc is the loop of scan that runs next.                          *)
(*                                                                         *)
(* History variables, read by the properties only: tokStart is the index   *)
(* of the character the main loop read last; spans[i] is the <<first,      *)
(* last>> source indices consumed for tokens[i]; errSpans[i] those of the  *)
(* construct errors[i] was reported for; skipped is the set of indices     *)
(* consumed by the whitespace arm, the newline arm and comments.           *)
(*                                                                         *)
(* The caller of scan, as history: round counts what the caller has done   *)
(* (scans started, or in run_prompt lines read), and prev is how the scan  *)
(* before the current one ended.  errors holds the reports of the current  *)
(* scan call.  No action of scan reads or changes round and prev.          *)
(***************************************************************************)
VARIABLES source, pos, tokens, line, lexeme, lit, errors, HAD_ERROR, pc,
          tokStart, spans, errSpans, skipped, round, prev

vars == <<source, pos, tokens, line, lexeme, lit, errors, HAD_ERROR, pc,
          tokStart, spans, errSpans, skipped, round, prev>>

driver == <<round, prev>>

\* prev before any scan has ended.
NoResult == [tokens |-> <<>>, errors |-> <<>>, pc |-> "none", flag |-> FALSE]

None == ""

NoStr == <<>>

NoNum == <<0, 1>>

\* char_iter.peek() once i characters have been yielded.
peek(i) == IF i < Len(source) THEN source[i + 1] ELSE None

\* Token::new, with the payload of TokenKind::Literal in str and num.
Token_new(kind, lx, ln, str, num) ==
    [kind |-> kind, lexeme |-> lx, line |-> ln, str |-> str, num |-> num]

\* add_token inserting at the front of the list instead of pushing.
add_token_AtFront(kind, str, num, lx, ln) ==
    /\ tokens' = <<Token_new(kind, lx, ln, str, num)>> \o tokens
    /\ lexeme' = <<>>

\* Scanner::add_token, called with self.lexeme = lx and self.line = ln.
add_token(kind, str, num, lx, ln) ==
    /\ tokens' = Append(tokens, Token_new(kind, lx, ln, str, num))
    /\ lexeme' = <<>>

\* report printing only while HAD_ERROR is still false (the first error only).
report_OnlyFirst(ln, msg) ==
    IF HAD_ERROR
    THEN UNCHANGED <<errors, HAD_ERROR>>
    ELSE /\ errors' = Append(errors, [line |-> ln, msg |-> msg])
         /\ HAD_ERROR' = TRUE

\* Lox::report
report(ln, msg) ==
    /\ errors' = Append(errors, [line |-> ln, msg |-> msg])
    /\ HAD_ERROR' = TRUE

\* The message texts, a format! result as the sequence of its pieces.
Unterminated == <<"Unterminated string.">>

UnexpectedMsg(c) == <<"unexpected character ", c>>

\* Scanner::new(source), and HAD_ERROR as the static initialises it.
Init ==
    /\ source \in Sources
    /\ pos = 0
    /\ tokens = <<>>
    /\ line = 1
    /\ lexeme = <<>>
    /\ lit = <<>>
    /\ errors = <<>>
    /\ HAD_ERROR = FALSE
    /\ pc = "main"
    /\ tokStart = 0
    /\ spans = <<>>
    /\ errSpans = <<>>
    /\ skipped = {}
    /\ round = 1
    /\ prev = NoResult

\* `while let Some(c) = char_iter.next()` yields a character.
MainReads == pc = "main" /\ pos < Len(source)


\* The arms '(' ')' '{' '}' ',' '.' '-' '+' ';' '*'.
SingleChar ==
    /\ MainReads
    /\ source[pos + 1] \in SingleChars
    /\ add_token(SingleCharKind(source[pos + 1]), NoStr, NoNum,
                 Append(lexeme, source[pos + 1]), line)
    /\ pos' = pos + 1
    /\ tokStart' = pos + 1
    /\ spans' = Append(spans, <<pos + 1, pos + 1>>)
    /\ UNCHANGED <<source, line, lit, errors, HAD_ERROR, pc, errSpans, skipped>>
    /\ UNCHANGED driver

\* OneOrTwo without the char_iter.next() that skips the '=' of a two-character
\* operator.
OneOrTwo_NoSkip ==
    /\ MainReads
    /\ source[pos + 1] \in OneOrTwoChars
    /\ LET c == source[pos + 1]
           p == peek(pos + 1)
       IN  IF p = "="
           THEN /\ add_token(TwoCharKind(c), NoStr, NoNum,
                             Append(Append(lexeme, c), p), line)
                /\ spans' = Append(spans, <<pos + 1, pos + 2>>)
           ELSE /\ add_token(OneCharKind(c), NoStr, NoNum, Append(lexeme, c), line)
                /\ spans' = Append(spans, <<pos + 1, pos + 1>>)
    /\ pos' = pos + 1
    /\ tokStart' = pos + 1
    /\ UNCHANGED <<source, line, lit, errors, HAD_ERROR, pc, errSpans, skipped>>
    /\ UNCHANGED driver

\* The arms '!' '=' '<' '>': p is the peek taken at the top of the iteration.
OneOrTwo ==
    /\ MainReads
    /\ source[pos + 1] \in OneOrTwoChars
    /\ LET c == source[pos + 1]
           p == peek(pos + 1)
       IN  IF p = "="
           THEN /\ add_token(TwoCharKind(c), NoStr, NoNum,
                             Append(Append(lexeme, c), p), line)
                /\ pos' = pos + 2
                /\ spans' = Append(spans, <<pos + 1, pos + 2>>)
           ELSE /\ add_token(OneCharKind(c), NoStr, NoNum, Append(lexeme, c), line)
                /\ pos' = pos + 1
                /\ spans' = Append(spans, <<pos + 1, pos + 1>>)
    /\ tokStart' = pos + 1
    /\ UNCHANGED <<source, line, lit, errors, HAD_ERROR, pc, errSpans, skipped>>
    /\ UNCHANGED driver

\* The arm '/': a second '/' enters the comment loop, anything else is Slash.
Slash ==
    /\ MainReads
    /\ source[pos + 1] = "/"
    /\ IF peek(pos + 1) = "/"
       THEN /\ lexeme' = Append(lexeme, "/")
            /\ pc' = "comment"
            /\ skipped' = skipped \cup {pos + 1}
            /\ UNCHANGED <<tokens, spans>>
       ELSE /\ add_token("Slash", NoStr, NoNum, Append(lexeme, "/"), line)
            /\ spans' = Append(spans, <<pos + 1, pos + 1>>)
            /\ UNCHANGED <<pc, skipped>>
    /\ pos' = pos + 1
    /\ tokStart' = pos + 1
    /\ UNCHANGED <<source, line, lit, errors, HAD_ERROR, errSpans>>
    /\ UNCHANGED driver

\* CommentStep breaking on the character next() yielded instead of on the
\* peek: the comment loop eats the newline.
CommentStep_EatsNewline ==
    /\ pc = "comment"
    /\ IF pos < Len(source)
       THEN /\ pos' = pos + 1
            /\ skipped' = skipped \cup {pos + 1}
            /\ IF source[pos + 1] = "\n"
               THEN lexeme' = <<>> /\ pc' = "main"
               ELSE UNCHANGED <<lexeme, pc>>
       ELSE /\ lexeme' = <<>>
            /\ pc' = "main"
            /\ UNCHANGED <<pos, skipped>>
    /\ UNCHANGED <<source, tokens, line, lit, errors, HAD_ERROR, tokStart, spans,
                   errSpans>>
    /\ UNCHANGED driver

\* One iteration of the comment loop: next(), then break when the peek is a
\* newline; when next() is None the loop ends.  Leaving it clears the lexeme.
CommentStep ==
    /\ pc = "comment"
    /\ IF pos < Len(source)
       THEN /\ pos' = pos + 1
            /\ skipped' = skipped \cup {pos + 1}
            /\ IF peek(pos + 1) = "\n"
               THEN lexeme' = <<>> /\ pc' = "main"
               ELSE UNCHANGED <<lexeme, pc>>
       ELSE /\ lexeme' = <<>>
            /\ pc' = "main"
            /\ UNCHANGED <<pos, skipped>>
    /\ UNCHANGED <<source, tokens, line, lit, errors, HAD_ERROR, tokStart, spans,
                   errSpans>>
    /\ UNCHANGED driver

\* The arm '"': a fresh lit, then the string loop.
Quote ==
    /\ MainReads
    /\ source[pos + 1] = "\""
    /\ lexeme' = Append(lexeme, "\"")
    /\ lit' = <<>>
    /\ pos' = pos + 1
    /\ tokStart' = pos + 1
    /\ pc' = "string"
    /\ UNCHANGED <<source, tokens, line, errors, HAD_ERROR, spans, errSpans, skipped>>
    /\ UNCHANGED driver

\* StringStep without `self.line += 1` in its newline arm.
StringStep_NoLineCount ==
    /\ pc = "string"
    /\ IF peek(pos) = None
       THEN /\ pc' = "main"
            /\ lit' = <<>>
            /\ UNCHANGED <<pos, tokens, line, lexeme, errors, HAD_ERROR, spans,
                           errSpans>>
       ELSE LET c_next == source[pos + 1]
            IN  IF c_next = "\""
                THEN /\ add_token("String", lit, NoNum, Append(lexeme, c_next), line)
                     /\ spans' = Append(spans, <<tokStart, pos + 1>>)
                     /\ pos' = pos + 1
                     /\ pc' = "main"
                     /\ lit' = <<>>
                     /\ UNCHANGED <<line, errors, HAD_ERROR, errSpans>>
                ELSE /\ lexeme' = Append(lexeme, c_next)
                     /\ lit' = Append(lit, c_next)
                     /\ line' = line
                     /\ pos' = pos + 1
                     /\ IF peek(pos + 1) = None
                        THEN /\ report(line', Unterminated)
                             /\ errSpans' = Append(errSpans, <<tokStart, pos + 1>>)
                        ELSE UNCHANGED <<errors, HAD_ERROR, errSpans>>
                     /\ UNCHANGED <<tokens, spans, pc>>
    /\ UNCHANGED <<source, tokStart, skipped>>
    /\ UNCHANGED driver

\* StringStep without the char_iter.next() after the loop: the closing quote
\* is left to the main loop.
StringStep_NoSkip ==
    /\ pc = "string"
    /\ IF peek(pos) = None
       THEN /\ pc' = "main"
            /\ lit' = <<>>
            /\ UNCHANGED <<pos, tokens, line, lexeme, errors, HAD_ERROR, spans,
                           errSpans>>
       ELSE LET c_next == source[pos + 1]
            IN  IF c_next = "\""
                THEN /\ add_token("String", lit, NoNum, Append(lexeme, c_next), line)
                     /\ spans' = Append(spans, <<tokStart, pos + 1>>)
                     /\ pc' = "main"
                     /\ lit' = <<>>
                     /\ UNCHANGED <<pos, line, errors, HAD_ERROR, errSpans>>
                ELSE /\ lexeme' = Append(lexeme, c_next)
                     /\ lit' = Append(lit, c_next)
                     /\ line' = IF c_next = "\n" THEN line + 1 ELSE line
                     /\ pos' = pos + 1
                     /\ IF peek(pos + 1) = None
                        THEN /\ report(line', Unterminated)
                             /\ errSpans' = Append(errSpans, <<tokStart, pos + 1>>)
                        ELSE UNCHANGED <<errors, HAD_ERROR, errSpans>>
                     /\ UNCHANGED <<tokens, spans, pc>>
    /\ UNCHANGED <<source, tokStart, skipped>>
    /\ UNCHANGED driver

\* One iteration of the string loop, on the peeked c_next: a '"' adds the
\* token and breaks, and the next() after the loop skips it; any other
\* character is pushed and consumed, and the end of input is then reported.
\* When the peek is None the loop ends and the next() after it yields nothing.
StringStep ==
    /\ pc = "string"
    /\ IF peek(pos) = None
       THEN /\ pc' = "main"
            /\ lit' = <<>>
            /\ UNCHANGED <<pos, tokens, line, lexeme, errors, HAD_ERROR, spans,
                           errSpans>>
       ELSE LET c_next == source[pos + 1]
            IN  IF c_next = "\""
                THEN /\ add_token("String", lit, NoNum, Append(lexeme, c_next), line)
                     /\ spans' = Append(spans, <<tokStart, pos + 1>>)
                     /\ pos' = pos + 1
                     /\ pc' = "main"
                     /\ lit' = <<>>
                     /\ UNCHANGED <<line, errors, HAD_ERROR, errSpans>>
                ELSE /\ lexeme' = Append(lexeme, c_next)
                     /\ lit' = Append(lit, c_next)
                     /\ line' = IF c_next = "\n" THEN line + 1 ELSE line
                     /\ pos' = pos + 1
                     /\ IF peek(pos + 1) = None
                        THEN /\ report(line', Unterminated)
                             /\ errSpans' = Append(errSpans, <<tokStart, pos + 1>>)
                        ELSE UNCHANGED <<errors, HAD_ERROR, errSpans>>
                     /\ UNCHANGED <<tokens, spans, pc>>
    /\ UNCHANGED <<source, tokStart, skipped>>
    /\ UNCHANGED driver

\* The arm '0'..='9': the digit is in the lexeme, the integer loop follows.
Digit ==
    /\ MainReads
    /\ source[pos + 1] \in Digits
    /\ lexeme' = Append(lexeme, source[pos + 1])
    /\ pos' = pos + 1
    /\ tokStart' = pos + 1
    /\ pc' = "int"
    /\ UNCHANGED <<source, tokens, line, lit, errors, HAD_ERROR, spans, errSpans,
                   skipped>>
    /\ UNCHANGED driver

\* IntStep consuming a '.' only when a digit follows it (two characters of
\* lookahead), which leaves a trailing '.' to the main loop.
IntStep_NoTrailingDot ==
    /\ pc = "int"
    /\ IF peek(pos) \in Digits
       THEN /\ lexeme' = Append(lexeme, peek(pos))
            /\ pos' = pos + 1
            /\ UNCHANGED pc
       ELSE IF peek(pos) = "." /\ peek(pos + 1) \in Digits
            THEN /\ lexeme' = Append(lexeme, ".")
                 /\ pos' = pos + 1
                 /\ pc' = "frac"
            ELSE /\ pc' = "parse"
                 /\ UNCHANGED <<lexeme, pos>>
    /\ UNCHANGED <<source, tokens, line, lit, errors, HAD_ERROR, tokStart, spans,
                   errSpans, skipped>>
    /\ UNCHANGED driver

\* One iteration of the integer loop; when the peek is no digit, the `if let`
\* on '.' consumes a '.' and enters the fraction loop, else the parse follows.
IntStep ==
    /\ pc = "int"
    /\ IF peek(pos) \in Digits
       THEN /\ lexeme' = Append(lexeme, peek(pos))
            /\ pos' = pos + 1
            /\ UNCHANGED pc
       ELSE IF peek(pos) = "."
            THEN /\ lexeme' = Append(lexeme, ".")
                 /\ pos' = pos + 1
                 /\ pc' = "frac"
            ELSE /\ pc' = "parse"
                 /\ UNCHANGED <<lexeme, pos>>
    /\ UNCHANGED <<source, tokens, line, lit, errors, HAD_ERROR, tokStart, spans,
                   errSpans, skipped>>
    /\ UNCHANGED driver

\* One iteration of the fraction loop.
FracStep ==
    /\ pc = "frac"
    /\ IF peek(pos) \in Digits
       THEN /\ lexeme' = Append(lexeme, peek(pos))
            /\ pos' = pos + 1
            /\ UNCHANGED pc
       ELSE /\ pc' = "parse"
            /\ UNCHANGED <<lexeme, pos>>
    /\ UNCHANGED <<source, tokens, line, lit, errors, HAD_ERROR, tokStart, spans,
                   errSpans, skipped>>
    /\ UNCHANGED driver

\* self.lexeme.parse().expect(..): Ok adds the Number token, Err panics and
\* scan never returns.
Parse ==
    /\ pc = "parse"
    /\ IF ParseOk(lexeme)
       THEN /\ add_token("Number", NoStr, ParseVal(lexeme), lexeme, line)
            /\ spans' = Append(spans, <<tokStart, pos>>)
            /\ pc' = "main"
       ELSE /\ pc' = "panicked"
            /\ UNCHANGED <<tokens, lexeme, spans>>
    /\ UNCHANGED <<source, pos, line, lit, errors, HAD_ERROR, tokStart, errSpans,
                   skipped>>
    /\ UNCHANGED driver

\* The arm ' ' | '\r' | '\t' => {}: the character stays in the lexeme.
Whitespace ==
    /\ MainReads
    /\ source[pos + 1] \in WhitespaceChars
    /\ lexeme' = Append(lexeme, source[pos + 1])
    /\ pos' = pos + 1
    /\ tokStart' = pos + 1
    /\ skipped' = skipped \cup {pos + 1}
    /\ UNCHANGED <<source, tokens, line, lit, errors, HAD_ERROR, pc, spans, errSpans>>
    /\ UNCHANGED driver

\* Newline without `self.line += 1`.
Newline_NoCount ==
    /\ MainReads
    /\ source[pos + 1] = "\n"
    /\ lexeme' = <<>>
    /\ pos' = pos + 1
    /\ tokStart' = pos + 1
    /\ skipped' = skipped \cup {pos + 1}
    /\ UNCHANGED <<source, tokens, line, lit, errors, HAD_ERROR, pc, spans, errSpans>>
    /\ UNCHANGED driver

\* The arm '\n'.
Newline ==
    /\ MainReads
    /\ source[pos + 1] = "\n"
    /\ line' = line + 1
    /\ lexeme' = <<>>
    /\ pos' = pos + 1
    /\ tokStart' = pos + 1
    /\ skipped' = skipped \cup {pos + 1}
    /\ UNCHANGED <<source, tokens, lit, errors, HAD_ERROR, pc, spans, errSpans>>
    /\ UNCHANGED driver

\* The arm _: the character is reported and stays in the lexeme.
Unexpected ==
    /\ MainReads
    /\ source[pos + 1] \notin
         SingleChars \cup OneOrTwoChars \cup {"/", "\"", "\n"} \cup Digits
           \cup WhitespaceChars
    /\ report(line, UnexpectedMsg(source[pos + 1]))
    /\ errSpans' = Append(errSpans, <<pos + 1, pos + 1>>)
    /\ lexeme' = Append(lexeme, source[pos + 1])
    /\ pos' = pos + 1
    /\ tokStart' = pos + 1
    /\ UNCHANGED <<source, tokens, line, lit, pc, spans, skipped>>
    /\ UNCHANGED driver

\* EofToken with the accumulator as its lexeme, as add_token would build it.
EofToken_WithLexeme == Token_new("Eof", lexeme, line, NoStr, NoNum)

\* The token pushed after the main loop.
EofToken == Token_new("Eof", <<>>, line, NoStr, NoNum)

\* char_iter.next() is None in the main loop: the Eof push, and scan returns.
Finish ==
    /\ pc = "main"
    /\ pos = Len(source)
    /\ tokens' = Append(tokens, EofToken)
    /\ spans' = Append(spans, <<pos + 1, pos>>)
    /\ pc' = "done"
    /\ UNCHANGED <<source, pos, line, lexeme, lit, errors, HAD_ERROR, tokStart,
                   errSpans, skipped>>
    /\ UNCHANGED driver

Next ==
    \/ SingleChar
    \/ OneOrTwo
    \/ Slash
    \/ CommentStep
    \/ Quote
    \/ StringStep
    \/ Digit
    \/ IntStep
    \/ FracStep
    \/ Parse
    \/ Whitespace
    \/ Newline
    \/ Unexpected
    \/ Finish

Spec == Init /\ [][Next]_vars

(***************************************************************************)
(* Callers of scan.  Lox::run builds a Scanner with Scanner::new and calls *)
(* scan on it once; Lox::run_prompt calls Lox::run for every line it reads *)
(* that is neither empty nor a lone newline, and clears HAD_ERROR after    *)
(* it.  Spec is one Lox::run; the specifications below go on after scan    *)
(* has ended.                                                              *)
(***************************************************************************)
\* Bound: the lines run_prompt reads.
MaxLinesRead == 2

\* Lox::run(code) up to the call of scan: Scanner::new(code).
Scanner_new(code) ==
    /\ source' = code
    /\ pos' = 0
    /\ tokens' = <<>>
    /\ line' = 1
    /\ lexeme' = <<>>
    /\ lit' = <<>>
    /\ pc' = "main"
    /\ errors' = <<>>
    /\ tokStart' = 0
    /\ spans' = <<>>
    /\ errSpans' = <<>>
    /\ skipped' = {}

\* Scanner::new and the static, with the flag at either value when the first
\* scan starts.
InitAnyFlag ==
    /\ source \in Sources
    /\ pos = 0
    /\ tokens = <<>>
    /\ line = 1
    /\ lexeme = <<>>
    /\ lit = <<>>
    /\ errors = <<>>
    /\ HAD_ERROR \in BOOLEAN
    /\ pc = "main"
    /\ tokStart = 0
    /\ spans = <<>>
    /\ errSpans = <<>>
    /\ skipped = {}
    /\ round = 1
    /\ prev = NoResult

\* A second Scanner::new on the same source once the first scan has ended,
\* with the flag at either value.
SecondScanner ==
    /\ pc \in {"done", "panicked"}
    /\ round = 1
    /\ round' = 2
    /\ prev' = [tokens |-> tokens, errors |-> errors, pc |-> pc, flag |-> HAD_ERROR]
    /\ Scanner_new(source)
    /\ HAD_ERROR' \in BOOLEAN

NextTwoScanners == Next \/ SecondScanner

SpecTwoScanners == InitAnyFlag /\ [][NextTwoScanners]_vars

\* A second call of scan on the same Scanner: a new char_iter over
\* self.source; tokens, line and lexeme are the fields as the first call left
\* them.
Rescan ==
    /\ pc = "done"
    /\ round = 1
    /\ round' = 2
    /\ prev' = [tokens |-> tokens, errors |-> errors, pc |-> pc, flag |-> HAD_ERROR]
    /\ pos' = 0
    /\ pc' = "main"
    /\ errors' = <<>>
    /\ tokStart' = 0
    /\ errSpans' = <<>>
    /\ skipped' = {}
    /\ UNCHANGED <<source, tokens, line, lexeme, lit, HAD_ERROR, spans>>

NextRescan == Next \/ Rescan

SpecRescan == Init /\ [][NextRescan]_vars

\* What read_line can put into the cleared buffer: nothing at the end of the
\* input, else a text whose only newline, if any, is its last character.
PromptLines ==
    {l \in Sources : \A i \in 1..(Len(l) - 1) : l[i] # "\n"}

\* run_prompt before its first read_line: no Scanner yet.
InitPrompt ==
    /\ source = <<>>
    /\ pos = 0
    /\ tokens = <<>>
    /\ line = 1
    /\ lexeme = <<>>
    /\ lit = <<>>
    /\ errors = <<>>
    /\ HAD_ERROR = FALSE
    /\ pc = "prompt"
    /\ tokStart = 0
    /\ spans = <<>>
    /\ errSpans = <<>>
    /\ skipped = {}
    /\ round = 0
    /\ prev = NoResult

\* read_line leaves the buffer empty: break, and run_prompt returns.
PromptEof ==
    /\ pc = "prompt"
    /\ round < MaxLinesRead
    /\ round' = round + 1
    /\ pc' = "exit"
    /\ UNCHANGED <<source, pos, tokens, line, lexeme, lit, errors, HAD_ERROR,
                   tokStart, spans, errSpans, skipped, prev>>

\* The buffer is a lone newline: cleared, continue.
PromptBlank ==
    /\ pc = "prompt"
    /\ round < MaxLinesRead
    /\ <<"\n">> \in PromptLines
    /\ round' = round + 1
    /\ UNCHANGED <<source, pos, tokens, line, lexeme, lit, errors, HAD_ERROR, pc,
                   tokStart, spans, errSpans, skipped, prev>>

\* Any other line: self.run(&line).
PromptRun ==
    /\ pc = "prompt"
    /\ round < MaxLinesRead
    /\ \E l \in PromptLines \ {<<>>, <<"\n">>} : Scanner_new(l)
    /\ round' = round + 1
    /\ UNCHANGED <<HAD_ERROR, prev>>

\* AfterRun without `HAD_ERROR = false`.
AfterRun_NoReset ==
    /\ pc = "done"
    /\ prev' = [tokens |-> <<>>, errors |-> <<>>, pc |-> pc, flag |-> HAD_ERROR]
    /\ source' = <<>>
    /\ pos' = 0
    /\ tokens' = <<>>
    /\ line' = 1
    /\ lexeme' = <<>>
    /\ pc' = "prompt"
    /\ errors' = <<>>
    /\ tokStart' = 0
    /\ spans' = <<>>
    /\ errSpans' = <<>>
    /\ skipped' = {}
    /\ UNCHANGED <<lit, round, HAD_ERROR>>

\* scan has returned: run prints the tokens and drops the Scanner, then
\* run_prompt clears HAD_ERROR and the buffer.  prev keeps how the scan ended
\* and the flag it left.
AfterRun ==
    /\ pc = "done"
    /\ prev' = [tokens |-> <<>>, errors |-> <<>>, pc |-> pc, flag |-> HAD_ERROR]
    /\ HAD_ERROR' = FALSE
    /\ source' = <<>>
    /\ pos' = 0
    /\ tokens' = <<>>
    /\ line' = 1
    /\ lexeme' = <<>>
    /\ pc' = "prompt"
    /\ errors' = <<>>
    /\ tokStart' = 0
    /\ spans' = <<>>
    /\ errSpans' = <<>>
    /\ skipped' = {}
    /\ UNCHANGED <<lit, round>>

NextPrompt == Next \/ PromptEof \/ PromptBlank \/ PromptRun \/ AfterRun

SpecPrompt == InitPrompt /\ [][NextPrompt]_vars


(***************************************************************************)
(* Vocabulary of the properties.                                           *)
(***************************************************************************)
Kinds(ts) == [i \in 1..Len(ts) |-> ts[i].kind]

Lines(xs) == [i \in 1..Len(xs) |-> xs[i].line]

\* The number of newlines among the first n characters of s.
CountNL(s, n) == Cardinality({i \in 1..n : s[i] = "\n"})

Ended == pc \in {"done", "panicked"}

(***************************************************************************)
(* C1: scan runs to completion on every source text: the number arm never  *)
(* reaches its parse with an accumulator that fails to parse, so the       *)
(* expect never panics.                                                    *)
(***************************************************************************)
C1_ScanNeverAborts ==
    /\ pc = "parse" => ParseOk(lexeme)
    /\ pc # "panicked"

(***************************************************************************)
(* C2: when scan returns, the sequence holds exactly one Eof token, it is  *)
(* the last element, its lexeme is empty whatever the accumulator holds,   *)
(* and its line is the final value of the line counter; before scan        *)
(* returns the sequence holds no Eof token.                                *)
(***************************************************************************)
C2_OneEofLast ==
    /\ pc = "done" =>
         /\ Len(tokens) >= 1
         /\ tokens[Len(tokens)].kind = "Eof"
         /\ tokens[Len(tokens)].lexeme = <<>>
         /\ tokens[Len(tokens)].line = line
         /\ \A i \in 1..(Len(tokens) - 1) : tokens[i].kind # "Eof"
    /\ pc # "done" => \A i \in 1..Len(tokens) : tokens[i].kind # "Eof"

\* scan has returned with characters left in the accumulator, after other
\* tokens and a newline.
C2_Witness ==
    /\ pc = "done"
    /\ lexeme # <<>>
    /\ Len(tokens) >= 2
    /\ line >= 2
    /\ tokens[Len(tokens)] = [kind |-> "Eof", lexeme |-> <<>>, line |-> line,
                              str |-> NoStr, num |-> NoNum]


(***************************************************************************)
(* The number literals of a text, read off the text itself: from index i   *)
(* on, a string runs to its closing quote (or to the end of the text), a   *)
(* comment to the character before the next newline, and a number literal  *)
(* is a maximal digit run with an optional '.' and digit run.              *)
(***************************************************************************)
\* The least index >= i holding c, or Len(s) + 1.
RECURSIVE IndexFrom(_, _, _)
IndexFrom(s, c, i) ==
    IF i > Len(s) \/ s[i] = c THEN i ELSE IndexFrom(s, c, i + 1)

\* The decimal value of the digit runs a '.' b.
DecimalValue(a, b) ==
    Normalize(DigitsValue(a) * Pow10(Len(b)) + DigitsValue(b), Pow10(Len(b)))

RECURSIVE NumberLiterals(_, _)
NumberLiterals(s, i) ==
    IF i > Len(s) THEN <<>>
    ELSE IF s[i] = "\"" THEN NumberLiterals(s, IndexFrom(s, "\"", i + 1) + 1)
    ELSE IF s[i] = "/" /\ i < Len(s) /\ s[i + 1] = "/"
         THEN NumberLiterals(s, IndexFrom(s, "\n", i + 2))
    ELSE IF s[i] \in Digits
         THEN LET n    == DigitRun(s, i)
                  dot  == i + n <= Len(s) /\ s[i + n] = "."
                  m    == IF dot THEN DigitRun(s, i + n + 1) ELSE 0
                  next == IF dot THEN i + n + 1 + m ELSE i + n
              IN  <<DecimalValue(SubSeq(s, i, i + n - 1),
                                 SubSeq(s, i + n + 1, i + n + m))>>
                    \o NumberLiterals(s, next)
    ELSE NumberLiterals(s, i + 1)

\* The values of the Number tokens of ts, in order.
RECURSIVE NumberValues(_)
NumberValues(ts) ==
    IF ts = <<>> THEN <<>>
    ELSE (IF Head(ts).kind = "Number" THEN <<Head(ts).num>> ELSE <<>>)
           \o NumberValues(Tail(ts))

(***************************************************************************)
(* C3: once scan has ended, the Number tokens are, in order, the values of *)
(* the maximal number literals of the source outside strings and comments, *)
(* whatever precedes a literal; and scanning `(+ 2 3.5)` ends with the     *)
(* kinds LeftParen, Plus, Number 2.0, Number 3.5, RightParen, Eof.         *)
(***************************************************************************)
C3_NumberTokens ==
    Ended =>
      /\ NumberValues(tokens) = NumberLiterals(source, 1)
      /\ source = SrcParens =>
           /\ Kinds(tokens) =
                <<"LeftParen", "Plus", "Number", "Number", "RightParen", "Eof">>
           /\ NumberValues(tokens) = <<<<2, 1>>, <<35, 10>>>>

(***************************************************************************)
(* C4: the lexeme of every token but Eof is exactly the source characters  *)
(* consumed for that token, and after the main loop reads a space, a       *)
(* carriage return or a tab the accumulator is empty.                      *)
(***************************************************************************)
C4_LexemeIsSpan ==
    /\ \A i \in 1..Len(tokens) :
         tokens[i].kind # "Eof" =>
           tokens[i].lexeme = SubSeq(source, spans[i][1], spans[i][2])
    /\ (pc = "main" /\ pos >= 1 /\ tokStart = pos /\ source[pos] \in WhitespaceChars)
         => lexeme = <<>>

(***************************************************************************)
(* C5: when scan returns and the input ended inside a string literal (the  *)
(* last character the main loop read is a '"' that no later '"' closes,    *)
(* with any number of characters after it, zero included), exactly one     *)
(* "Unterminated string." error has been reported, it is the last report   *)
(* and carries the current line, no String token was added for the         *)
(* literal, and the sequence ends with Eof.                                *)
(***************************************************************************)
OpenStringAtEnd ==
    /\ tokStart >= 1
    /\ source[tokStart] = "\""
    /\ \A j \in (tokStart + 1)..Len(source) : source[j] # "\""

C5_UnterminatedReported ==
    (pc = "done" /\ OpenStringAtEnd) =>
      /\ Cardinality({i \in 1..Len(errors) : errors[i].msg = Unterminated}) = 1
      /\ errors[Len(errors)] = [line |-> line, msg |-> Unterminated]
      /\ \A i \in 1..Len(tokens) :
           tokens[i].kind = "String" => spans[i][1] # tokStart
      /\ tokens[Len(tokens)].kind = "Eof"


(***************************************************************************)
(* C6: when the main loop reads '!', '=', '<' or '>' and the next          *)
(* character is '=', both are consumed and BangEqual, EqualEqual,          *)
(* LessEqual or GreaterEqual is added; otherwise Bang, Equal, Less or      *)
(* Greater is added and the next character is left for the main loop.      *)
(* scan returns the kinds BangEqual, Equal, Bang, Eof for `!= = !` and     *)
(* LessEqual, Equal, Eof for `<==`.                                        *)
(***************************************************************************)
C6_GreedyOperators ==
    [][ /\ (pc = "main" /\ pos < Len(source) /\ source[pos + 1] \in {"!", "=", "<", ">"}) =>
             LET c == source[pos + 1]
             IN  /\ Len(tokens') = Len(tokens) + 1
                 /\ SubSeq(tokens', 1, Len(tokens)) = tokens
                 /\ pc' = "main"
                 /\ IF pos + 2 <= Len(source) /\ source[pos + 2] = "="
                    THEN /\ pos' = pos + 2
                         /\ tokens'[Len(tokens')].kind =
                              CASE c = "!" -> "BangEqual" [] c = "=" -> "EqualEqual"
                                [] c = "<" -> "LessEqual" [] c = ">" -> "GreaterEqual"
                    ELSE /\ pos' = pos + 1
                         /\ tokens'[Len(tokens')].kind =
                              CASE c = "!" -> "Bang" [] c = "=" -> "Equal"
                                [] c = "<" -> "Less" [] c = ">" -> "Greater"
        /\ (pc' = "done" /\ source = SrcBang) =>
             Kinds(tokens') = <<"BangEqual", "Equal", "Bang", "Eof">>
        /\ (pc' = "done" /\ source = SrcLessEqEq) =>
             Kinds(tokens') = <<"LessEqual", "Equal", "Eof">>
      ]_vars

\* scan has returned on `!= = !`: a two-character operator, then two
\* one-character ones, the last at the end of the input.
C6_Witness ==
    /\ pc = "done"
    /\ source = SrcBang
    /\ Kinds(tokens) = <<"BangEqual", "Equal", "Bang", "Eof">>
    /\ spans = <<<<1, 2>>, <<4, 4>>, <<6, 6>>, <<7, 6>>>>

(***************************************************************************)
(* C7: a '/' followed by '/' adds no token and starts a comment; every     *)
(* iteration of the comment loop consumes one character that is no         *)
(* newline, adds no token, reports nothing and leaves the line counter     *)
(* alone; the loop ends with the accumulator cleared, in front of the next *)
(* newline or at the end of the input, so the main loop reads that newline *)
(* and `// comment only` with a newline returns only Eof at line 2.  A '/' *)
(* followed by anything else adds Slash.                                   *)
(***************************************************************************)
C7_Comments ==
    [][ /\ (pc = "main" /\ pos < Len(source) /\ source[pos + 1] = "/") =>
             IF pos + 2 <= Len(source) /\ source[pos + 2] = "/"
             THEN /\ pc' = "comment"
                  /\ pos' = pos + 1
                  /\ UNCHANGED <<tokens, errors, line>>
             ELSE /\ pc' = "main"
                  /\ pos' = pos + 1
                  /\ Len(tokens') = Len(tokens) + 1
                  /\ tokens'[Len(tokens')].kind = "Slash"
        /\ pc = "comment" =>
             /\ UNCHANGED <<tokens, errors, line>>
             /\ pos' \in {pos, pos + 1}
             /\ pos' = pos + 1 => source[pos'] # "\n"
             /\ pc' \in {"comment", "main"}
             /\ pc' = "comment" => pos' = pos + 1
             /\ pc' = "main" =>
                  /\ lexeme' = <<>>
                  /\ pos' = Len(source) \/ source[pos' + 1] = "\n"
        /\ (pc' = "done" /\ source = SrcComment) =>
             /\ tokens' = <<[kind |-> "Eof", lexeme |-> <<>>, line |-> 2,
                             str |-> NoStr, num |-> NoNum]>>
             /\ errors' = <<>>
      ]_vars

\* scan has returned on `// comment only` with its newline: every character
\* before the newline was consumed by the comment, the newline by the main loop.
C7_Witness ==
    /\ pc = "done"
    /\ source = SrcComment
    /\ Kinds(tokens) = <<"Eof">>
    /\ tokens[1].line = 2
    /\ skipped = 1..Len(source)

(***************************************************************************)
(* C8: a character read by the main loop that matches no lexical rule is   *)
(* reported exactly once, at line 1 + the number of newlines before it,    *)
(* adds no token, and the main loop goes on with the next character.       *)
(* Scanning a, newline, b, newline, c reports at lines 1, 2, 3 and the     *)
(* only token is Eof at line 3.                                            *)
(***************************************************************************)
LexicalChars ==
    {"(", ")", "{", "}", ",", ".", "-", "+", ";", "*", "!", "=", "<", ">", "/",
     "\"", "0", "1", "2", "3", "4", "5", "6", "7", "8", "9", " ", "\r", "\t", "\n"}

C8_UnexpectedReported ==
    [][ /\ (pc = "main" /\ pos < Len(source) /\ source[pos + 1] \notin LexicalChars) =>
             /\ errors' = Append(errors,
                                 [line |-> 1 + CountNL(source, pos),
                                  msg |-> <<"unexpected character ", source[pos + 1]>>])
             /\ tokens' = tokens
             /\ pos' = pos + 1
             /\ pc' = "main"
        /\ (pc' = "done" /\ source = SrcABC) =>
             /\ Lines(errors') = <<1, 2, 3>>
             /\ Kinds(tokens') = <<"Eof">>
             /\ tokens'[1].line = 3
      ]_vars

\* scan has returned on a, newline, b, newline, c with its three reports.
C8_Witness ==
    /\ pc = "done"
    /\ source = SrcABC
    /\ Lines(errors) = <<1, 2, 3>>
    /\ errSpans = <<<<1, 1>>, <<3, 3>>, <<5, 5>>>>
    /\ tokens[Len(tokens)].line = 3

(***************************************************************************)
(* C9: the line of every token but Eof is the 1-based line of the token's  *)
(* first character: 1 + the number of newlines before that character.      *)
(***************************************************************************)
C9_TokenLineIsFirstCharLine ==
    \A i \in 1..Len(tokens) :
      tokens[i].kind # "Eof" =>
        tokens[i].line = 1 + CountNL(source, spans[i][1] - 1)

(***************************************************************************)
(* C10: when scan returns, every character of the source was consumed by   *)
(* the whitespace arm, the newline arm or a comment, or lies in the span   *)
(* of a token, or in the span of a construct an error was reported for.    *)
(***************************************************************************)
C10_NothingAbsorbed ==
    pc = "done" =>
      \A i \in 1..Len(source) :
        \/ i \in skipped
        \/ \E k \in 1..Len(spans) : spans[k][1] <= i /\ i <= spans[k][2]
        \/ \E k \in 1..Len(errSpans) : errSpans[k][1] <= i /\ i <= errSpans[k][2]


(***************************************************************************)
(* C11: when the integer digits of a number end in front of a '.', the '.' *)
(* is consumed into the same literal whether or not a digit follows it,    *)
(* and the digits after it are consumed too; a '.' that ends the           *)
(* fractional digits is not consumed by the number.  scan returns, for     *)
(* `123.`, one Number token with value 123 and lexeme `123.`, then Eof,    *)
(* and no Dot token.                                                       *)
(***************************************************************************)
C11_TrailingDot ==
    [][ /\ (pc = "int" /\ pos < Len(source) /\ source[pos + 1] = ".") =>
             /\ pc' = "frac"
             /\ pos' = pos + 1
             /\ lexeme' = Append(lexeme, ".")
             /\ tokens' = tokens
        /\ (pc = "frac" /\ pos < Len(source)
              /\ source[pos + 1] \in {"0", "1", "2", "3", "4", "5", "6", "7", "8", "9"}) =>
             /\ pc' = "frac"
             /\ pos' = pos + 1
             /\ lexeme' = Append(lexeme, source[pos + 1])
        /\ (pc = "frac" /\ pos < Len(source) /\ source[pos + 1] = ".") =>
             /\ pc' = "parse"
             /\ pos' = pos
             /\ lexeme' = lexeme
        /\ (pc' = "done" /\ source = SrcTrailingDot) =>
             tokens' = <<[kind |-> "Number", lexeme |-> <<"1", "2", "3", ".">>,
                          line |-> 1, str |-> NoStr, num |-> <<123, 1>>],
                         [kind |-> "Eof", lexeme |-> <<>>, line |-> 1,
                          str |-> NoStr, num |-> NoNum]>>
      ]_vars

\* scan has returned on `123.`: the '.' lies in the span of the Number token.
C11_Witness ==
    /\ pc = "done"
    /\ source = SrcTrailingDot
    /\ Kinds(tokens) = <<"Number", "Eof">>
    /\ spans[1] = <<1, 4>>
    /\ tokens[1].num = <<123, 1>>


(***************************************************************************)
(* C12: inside a string literal, a character other than '"' adds no token, *)
(* is consumed, and moves the line counter by exactly one when it is a     *)
(* newline and not at all otherwise; while a closing '"' lies ahead no     *)
(* error is reported.  The closing '"' adds exactly one String token whose *)
(* value is the characters strictly between the two quotes, newlines       *)
(* included, and is itself consumed, with no error reported.               *)
(***************************************************************************)
C12_ClosedString ==
    [][ /\ (pc = "string" /\ pos < Len(source) /\ source[pos + 1] = "\"") =>
             /\ Len(tokens') = Len(tokens) + 1
             /\ SubSeq(tokens', 1, Len(tokens)) = tokens
             /\ tokens'[Len(tokens')].kind = "String"
             /\ tokens'[Len(tokens')].str = SubSeq(source, tokStart + 1, pos)
             /\ source[tokStart] = "\""
             /\ \A j \in (tokStart + 1)..pos : source[j] # "\""
             /\ pos' = pos + 1
             /\ pc' = "main"
             /\ UNCHANGED <<errors, HAD_ERROR, line>>
        /\ (pc = "string" /\ pos < Len(source) /\ source[pos + 1] # "\"") =>
             /\ tokens' = tokens
             /\ pos' = pos + 1
             /\ pc' = "string"
             /\ line' = IF source[pos + 1] = "\n" THEN line + 1 ELSE line
             /\ (\E j \in (pos + 2)..Len(source) : source[j] = "\"") =>
                  UNCHANGED <<errors, HAD_ERROR>>
        /\ (pc' = "done" /\ source = SrcMultiLine) =>
             /\ Kinds(tokens') = <<"Plus", "String", "Number", "Number", "LeftParen", "Eof">>
             /\ tokens'[2].str = <<"a", "\n", "b">>
             /\ errors' = <<>>
      ]_vars

\* scan has returned on a text with a two-line string literal: its String
\* token holds the newline, and the quotes lie in its span but not its value.
C12_Witness ==
    /\ pc = "done"
    /\ source = SrcMultiLine
    /\ tokens[2].kind = "String"
    /\ tokens[2].str = <<"a", "\n", "b">>
    /\ spans[2] = <<3, 7>>
    /\ errors = <<>>


(***************************************************************************)
(* C13: char_iter only moves forward; every iteration of the main loop     *)
(* consumes a character or ends the loop, and every iteration of the       *)
(* comment, string, integer and fraction loops consumes a character or     *)
(* leaves its loop; so scan ends, and when it has ended every character of *)
(* the source has been consumed.                                           *)
(***************************************************************************)
C13_ProgressAndTermination ==
    [][ /\ pos <= pos' /\ pos' <= Len(source)
        /\ pc = "main" => (pos' > pos \/ pc' = "done")
        /\ pc \in {"comment", "string", "int", "frac"} => (pos' > pos \/ pc' # pc)
        /\ pc' \in {"done", "panicked"} => pos' = Len(source)
      ]_vars


(***************************************************************************)
(* C17: at every point of the scan the line counter is 1 + the number of   *)
(* newlines among the characters consumed so far, wherever the newline was *)
(* consumed (main loop, string literal, end of a comment); when scan       *)
(* returns, the line of the Eof token is 1 + the number of newlines of the *)
(* source.                                                                 *)
(***************************************************************************)
C17_LineCount ==
    /\ line = 1 + CountNL(source, pos)
    /\ pc = "done" =>
         tokens[Len(tokens)].line = 1 + CountNL(source, Len(source))

\* scan has returned on a text with a newline read by the main loop, one
\* inside a string literal and one ending a comment, and a fourth.
C17_Witness ==
    /\ pc = "done"
    /\ source = SrcMultiLine
    /\ {i \in 1..Len(source) : source[i] = "\n"} = {2, 5, 8, 15}
    /\ spans[2][1] < 5 /\ 5 < spans[2][2]
    /\ 14 \in skipped
    /\ line = 5
    /\ tokens[Len(tokens)].line = 5

(***************************************************************************)
(* C18: every step leaves the tokens it found in place and only appends;   *)
(* the tokens lie in the order of their characters in the source (each     *)
(* span ends before the next begins); their lines never decrease along the *)
(* sequence; and when scan returns the line of the Eof token is at least   *)
(* the line of every token.                                                *)
(***************************************************************************)
C18_AppendOnlyOrdered ==
    [][ /\ Len(tokens') >= Len(tokens)
        /\ SubSeq(tokens', 1, Len(tokens)) = tokens
        /\ \A i \in 1..(Len(tokens') - 1) :
             /\ tokens'[i].line <= tokens'[i + 1].line
             /\ spans'[i][2] < spans'[i + 1][1]
        /\ pc' = "done" =>
             /\ tokens'[Len(tokens')].kind = "Eof"
             /\ \A i \in 1..Len(tokens') :
                  tokens'[i].line <= tokens'[Len(tokens')].line
      ]_vars

\* scan has returned six tokens over five lines.
C18_Witness ==
    /\ pc = "done"
    /\ source = SrcMultiLine
    /\ Lines(tokens) = <<1, 3, 4, 5, 5, 5>>
    /\ spans = <<<<1, 1>>, <<3, 7>>, <<9, 11>>, <<16, 16>>, <<17, 17>>, <<18, 17>>>>


(***************************************************************************)
(* C14: a second freshly constructed Scanner on the same source ends as    *)
(* the first did, with the same tokens (kinds, lexemes, literal values,    *)
(* lines) and the same error reports, whatever HAD_ERROR was before each   *)
(* of the two scans.                                                       *)
(***************************************************************************)
C14_FreshScansAgree ==
    (round = 2 /\ pc \in {"done", "panicked"}) =>
      /\ tokens = prev.tokens
      /\ errors = prev.errors
      /\ pc = prev.pc

\* Two scans of one source have returned, each with tokens and two reports.
C14_Witness ==
    /\ round = 2
    /\ pc = "done"
    /\ prev.pc = "done"
    /\ Len(prev.errors) >= 2
    /\ Len(prev.tokens) >= 2
    /\ tokens = prev.tokens
    /\ errors = prev.errors

(***************************************************************************)
(* C15: when a second call of scan on the same Scanner returns, it returns *)
(* the sequence the first call returned.                                   *)
(***************************************************************************)
C15_RescanSameSequence ==
    (round = 2 /\ pc = "done") => tokens = prev.tokens

(***************************************************************************)
(* C16: in run_prompt HAD_ERROR is false whenever Lox::run is called; a    *)
(* report sets it; it is false again once run_prompt has gone on after the *)
(* scan of a line; a line that is a lone newline is never scanned and      *)
(* reading it changes neither the flag nor anything of a scan.             *)
(***************************************************************************)
C16_FlagResetPerLine ==
    [][ /\ (pc = "prompt" /\ pc' = "main") =>
             /\ HAD_ERROR' = FALSE
             /\ source' \notin {<<>>, <<"\n">>}
        /\ Len(errors') > Len(errors) => HAD_ERROR' = TRUE
        /\ (pc = "done" /\ pc' = "prompt") => HAD_ERROR' = FALSE
        /\ (pc = "prompt" /\ pc' = "prompt") =>
             UNCHANGED <<HAD_ERROR, source, pos, tokens, errors, line, lexeme>>
      ]_vars

\* Lox::run is being called for the second line, the flag is false, and the
\* scan of the line before it had reported an error.
C16_Witness ==
    /\ pc = "main"
    /\ pos = 0
    /\ round = 2
    /\ prev.pc = "done"
    /\ prev.flag = TRUE
    /\ HAD_ERROR = FALSE

====
